---- MODULE Spec2Model ----
(***************************************************************************)
(* A model of squery_pg: the gevent connection pool of pool.py             *)
(* (DatabaseConnectionPool, in its single-connection and its queue-backed  *)
(* variant) and the migration runner of migrations.py working through the  *)
(* Database facade of squery_pg.py.                                        *)
(*                                                                         *)
(* Tasks are greenlets: a task runs without preemption between two         *)
(* suspension points, so one action is the code between two of them.       *)
(* Suspension points are create_connection (psycopg2.connect under the     *)
(* gevent wait callback), a blocking Queue.get, and the body of a          *)
(* connection() scope.                                                     *)
(***************************************************************************)
EXTENDS Integers, Sequences, FiniteSets, TLC

\* ------------------------------------------------------------------ bounds
NTasks == 2
MaxM == 2
MaxConns == 2
MaxMajor == 1
MaxMinor == 1
MaxScripts == 3
NStmts == 2
MaxListing == 3
MaxPolls == 3

\* ------------------------------------------------------------- constants
None == 0
VERSION_MULTIPLIER == 10000

VARIABLES
    maxsize,    \* DatabaseConnectionPool.maxsize
    size,       \* DatabaseConnectionPool.size, the live counter
    pool,       \* DatabaseConnectionPool.pool, the gevent Queue of idle connections
    getters,    \* the tasks blocked in Queue.get, in arrival order
    _conn,      \* DatabaseConnectionPool._conn, the single slot (None = 0)
    cstate,     \* per physical connection: "none" (not created), "open", "closed"
    pending,    \* per connection: the writes of its open transaction
    nconn,      \* number of connections create_connection has returned
    db,         \* the committed content of the database
    pc,         \* per task: "run", "creating" (in create_connection), "waiting" (in Queue.get)
    held,       \* per task: the connections of its open connection() scopes, innermost last
    last,       \* the pool operation that ran last: [op, task, conn, exc]
    lastGot,    \* the connection the latest completed get() returned (None = 0)
    ntasks,     \* number of tasks that use the pool
    iso,        \* per connection: conn.isolation_level
    lvl,        \* per task, per open scope: connection()'s isolation_level after
                \* entry, and (prior) the connection's level before entry
    req,        \* per task: the isolation_level argument of the connection()
                \* call whose get() is suspended
    scripts,    \* the (major, minor) of the modules found in the migrations package
    mpc,        \* where the task running migrate() is
    mph,        \* inside one database call: "acq", "exec", "ok", "err" ("none" outside)
    todo,       \* migrate: the migrations the for loop has still to run
    cur,        \* migrate: the (major, minor) of the migration being run
    nstmt,      \* number of statements the running up() has executed
    invoked,    \* the migrations whose up() this migrate() call has invoked, in order
    raised,     \* whether an up() or a set_version of this migrate() call has raised
    start,      \* what get_version returned to this migrate() call
    gv,         \* how get_version returned: [case, ret]
    dbAtCall,   \* the database content when this migrate() call began
    done,       \* the latest finished migrate() call: [res, start, invoked, rec]
    prev,       \* the migrate() call finished before it
    fault,      \* the error the server raises for the version lookup (NoFault: none)
    ctor,       \* the constructor call that made the pool: [arg, res]
    listing,    \* os.listdir(pkgdir): the file names in the migrations package
    cv,         \* a (major, minor) version given to get_new and pack_version
    plan,       \* what get_new(get_mods(package), ...) yields, once computed
    rt,         \* unpack_version(pack_version(...)), once computed
    wpc,        \* where a call of gevent_wait_callback is
    wtrace,     \* what that call has done: the polls and the waits that ended
    timeout     \* the timeout argument of that call (None = 0)

poolvars == <<maxsize, size, pool, getters, _conn, cstate, pending, nconn, db,
              pc, held, last, lastGot, ntasks, iso, lvl, req>>

\* What no pool operation and no step of migrate() changes.
waitvars == <<wpc, wtrace, timeout>>

envvars == <<ctor, listing, cv, plan, rt, waitvars>>

migvars == <<envvars, fault, scripts, mpc, mph, todo, cur, nstmt, invoked, raised, start, gv, dbAtCall,
             done, prev>>

vars == <<poolvars, migvars>>

ConnIds == 1..MaxConns
Tasks == 1..NTasks

Range(s) == {s[i] : i \in 1..Len(s)}

\* --------------------------------------------------------------- database
AppWrite == [k |-> "app", a |-> 0, b |-> 0]

\* The name argument of migrate(), and the name of another migration group.
name == 1
OtherName == 2

\* table: the migrations table exists; rec / other: the version in the record
\* of name / of OtherName (-1: no record); eff: the data written.
EmptyDb == [table |-> TRUE, rec |-> -1, eff |-> {}, other |-> -1]

ApplyWrite(d, w) ==
    IF w.k = "table" THEN [d EXCEPT !.table = TRUE]
    ELSE IF w.k = "ver"
         THEN (IF w.b = name THEN [d EXCEPT !.rec = w.a]
               ELSE [d EXCEPT !.other = w.a])
    ELSE [d EXCEPT !.eff = @ \cup {<<w.a, w.b>>}]

RECURSIVE ApplyAll(_, _)
ApplyAll(d, ws) ==
    IF ws = <<>> THEN d ELSE ApplyAll(ApplyWrite(d, Head(ws)), Tail(ws))

\* ------------------------------------------------------------------- pool
\* __new__/__init__: maxsize == 1 selects the single-connection methods.
IsSingle(m) == m = 1

\* The maxsize argument of the constructor: int says whether it is an instance
\* of integer_types, val is the number it compares equal to.
IntArgs(S) == {[int |-> TRUE, val |-> v] : v \in S}
OtherArgs(S) == {[int |-> FALSE, val |-> v] : v \in S}

\* DatabaseConnectionPool.__init__: what the constructor call ends with.
__init__(arg) == IF ~arg.int THEN "TypeError" ELSE "ok"

\* single_get without the `self._conn.closed` test.
single_needs_create_unset_only(conn, cs) == conn = None

\* single_get: `if not self._conn or self._conn.closed`
single_needs_create(conn, cs) == conn = None \/ cs[conn] = "closed"

\* multi_get: `if self.size >= self.maxsize or pool.qsize()`
multi_takes_queue(sz, mx, q) == sz >= mx \/ Len(q) > 0

\* multi_put that drops the item.
multi_put_dropped(q, item) == q

\* multi_put: `self.pool.put(item)`
multi_put(q, item) == Append(q, item)

\* A Queue.get that leaves the item in the queue.
queue_get_peek(q) == [item |-> Head(q), rest |-> q]

\* Queue.get on a non-empty queue: the oldest idle connection leaves the queue.
queue_get(q) == [item |-> Head(q), rest |-> Tail(q)]

\* The branch get() takes: "stored" (single_get returns self._conn), "idle"
\* (Queue.get pops at once), "block" (Queue.get on an empty queue), "create".
get_path(mx, sz, q, conn, cs) ==
    IF IsSingle(mx)
    THEN (IF single_needs_create(conn, cs) THEN "create" ELSE "stored")
    ELSE IF multi_takes_queue(sz, mx, q)
         THEN (IF Len(q) > 0 THEN "idle" ELSE "block")
         ELSE "create"

GetPath == get_path(maxsize, size, pool, _conn, cstate)

\* psycopg2's isolation levels used here; NoLevel is isolation_level=None.
READ_COMMITTED == "READ_COMMITTED"
AUTOCOMMIT == "AUTOCOMMIT"
NoLevel == "None"
LevelArgs == {NoLevel, AUTOCOMMIT}

\* connection(), after get(): the local isolation_level becomes None when the
\* connection already has the level asked for, else the level is set.
scope_level(current, isolation_level) ==
    IF isolation_level = NoLevel \/ current = isolation_level THEN NoLevel
    ELSE isolation_level

\* connection(), finally: `conn.set_isolation_level(isolation_level)` with the
\* local isolation_level, when it is not None.
level_at_put(current, isolation_level) ==
    IF isolation_level = NoLevel THEN current ELSE isolation_level

TopLvl(t) == lvl[t][Len(lvl[t])]

\* connection() has got connection c for the call with argument L.
Entered(t, c, L) ==
    /\ iso' = [iso EXCEPT ![c] = IF scope_level(@, L) = NoLevel THEN @ ELSE L]
    /\ lvl' = [lvl EXCEPT ![t] =
                 Append(@, [isolation_level |-> scope_level(iso[c], L),
                            prior |-> iso[c]])]
    /\ req' = [req EXCEPT ![t] = NoLevel]

\* The scope of t ends and its connection c is put back.
LeftWithPut(t, c) ==
    /\ iso' = [iso EXCEPT ![c] = level_at_put(@, TopLvl(t).isolation_level)]
    /\ lvl' = [lvl EXCEPT ![t] = SubSeq(@, 1, Len(@) - 1)]

\* The scope of t ends and nothing is put back.
LeftWithoutPut(t) ==
    /\ iso' = iso
    /\ lvl' = [lvl EXCEPT ![t] = SubSeq(@, 1, Len(@) - 1)]

Top(t) == held[t][Len(held[t])]
Pop(t) == SubSeq(held[t], 1, Len(held[t]) - 1)

\* exc is the exception the operation raises to its caller: "none",
\* "body_error" (the body's own error, re-raised), "OperationalError",
\* "commit_error", "create_error".
Ev(o, t, c, x) == [op |-> o, task |-> t, conn |-> c, exc |-> x]

\* self.put(conn), by the variant chosen in __new__.
Put(c) ==
    IF IsSingle(maxsize)
    THEN /\ _conn' = c
         /\ pool' = pool
    ELSE /\ pool' = multi_put(pool, c)
         /\ _conn' = _conn

\* The connections self.closeall() closes.
closeall_targets ==
    IF IsSingle(maxsize)
    THEN (IF _conn = None THEN {} ELSE {_conn})
    ELSE Range(pool)

\* cstate and pending once the connections of S are closed.
Closed(S) == [c \in ConnIds |-> IF c \in S THEN "closed" ELSE cstate[c]]
Aborted(S) == [c \in ConnIds |-> IF c \in S THEN <<>> ELSE pending[c]]

\* A multi_closeall that lets the error of close() through: the connections
\* behind the first one whose close() raises stay in the queue.
RECURSIVE multi_closeall_until_error(_, _)
multi_closeall_until_error(q, F) ==
    IF q = <<>> THEN <<>>
    ELSE IF Head(q) \in F THEN Tail(q)
    ELSE multi_closeall_until_error(Tail(q), F)

\* multi_closeall: the queue it leaves when close() raises for the connections
\* of F -- `while not self.pool.empty()` with the error of close() passed over.
RECURSIVE multi_closeall(_, _)
multi_closeall(q, F) ==
    IF q = <<>> THEN <<>> ELSE multi_closeall(Tail(q), F)

\* single_closeall: what it raises to its caller -- `except Exception: pass`
\* covers the AttributeError of an unset slot too.
single_closeall(conn) == "none"

\* The closeall() event: the connections close() was called on, and those of
\* them (failed) whose close() raised.
EvClose(t, q, x, F) ==
    [op |-> "closeall", task |-> t, conn |-> None, exc |-> x,
     tried |-> closeall_targets \ Range(q), failed |-> F]

\* A multi_get that creates without counting.
multi_get_else_uncounted(sz) == sz

\* multi_get, `else:` -- `self.size += 1`, before create_connection
multi_get_else(sz) == sz + 1

\* connection(isolation_level=L): self.get(), up to its return or its first
\* suspension point, and the setting of the level once it has returned.
Get(t, L) ==
    /\ pc[t] = "run"
    /\ \/ /\ GetPath = "stored"
          /\ held' = [held EXCEPT ![t] = Append(@, _conn)]
          /\ last' = Ev("get", t, _conn, "none")
          /\ lastGot' = _conn
          /\ Entered(t, _conn, L)
          /\ UNCHANGED <<size, pool, getters, pc>>
       \/ /\ GetPath = "idle"
          /\ held' = [held EXCEPT ![t] = Append(@, queue_get(pool).item)]
          /\ pool' = queue_get(pool).rest
          /\ last' = Ev("get", t, queue_get(pool).item, "none")
          /\ lastGot' = queue_get(pool).item
          /\ Entered(t, queue_get(pool).item, L)
          /\ UNCHANGED <<size, getters, pc>>
       \/ /\ GetPath = "block"
          /\ getters' = Append(getters, t)
          /\ pc' = [pc EXCEPT ![t] = "waiting"]
          /\ last' = Ev("wait", t, None, "none")
          /\ req' = [req EXCEPT ![t] = L]
          /\ UNCHANGED <<size, pool, held, lastGot, iso, lvl>>
       \/ /\ GetPath = "create"
          /\ nconn < MaxConns
          /\ size' = IF IsSingle(maxsize) THEN size ELSE multi_get_else(size)
          /\ pc' = [pc EXCEPT ![t] = "creating"]
          /\ last' = Ev("create_begin", t, None, "none")
          /\ req' = [req EXCEPT ![t] = L]
          /\ UNCHANGED <<pool, getters, held, lastGot, iso, lvl>>
    /\ UNCHANGED <<maxsize, _conn, cstate, pending, nconn, db, ntasks>>

\* create_connection returns: single_get stores and returns the new connection,
\* multi_get returns it.
CreateDone(t) ==
    /\ pc[t] = "creating"
    /\ nconn < MaxConns
    /\ LET c == nconn + 1 IN
       /\ nconn' = c
       /\ cstate' = [cstate EXCEPT ![c] = "open"]
       /\ _conn' = IF IsSingle(maxsize) THEN c ELSE _conn
       /\ held' = [held EXCEPT ![t] = Append(@, c)]
       /\ last' = Ev("created", t, c, "none")
       /\ lastGot' = c
       /\ Entered(t, c, req[t])
    /\ pc' = [pc EXCEPT ![t] = "run"]
    /\ UNCHANGED <<maxsize, size, pool, getters, pending, db, ntasks>>

\* A multi_get whose except clause only re-raises.
multi_get_except_keeps(sz) == sz

\* multi_get, `except:` -- `self.size -= 1`
multi_get_except(sz) == sz - 1

\* create_connection raises: multi_get takes its increment back and re-raises.
CreateFail(t) ==
    /\ pc[t] = "creating"
    /\ size' = IF IsSingle(maxsize) THEN size ELSE multi_get_except(size)
    /\ pc' = [pc EXCEPT ![t] = "run"]
    /\ last' = Ev("create_failed", t, None, "create_error")
    /\ req' = [req EXCEPT ![t] = NoLevel]
    /\ UNCHANGED <<maxsize, pool, getters, _conn, cstate, pending, nconn, db,
                   held, lastGot, ntasks, iso, lvl>>

\* A task blocked in Queue.get is resumed: the queue serves its oldest getter
\* once an item is there.
Wake(t) ==
    /\ pc[t] = "waiting"
    /\ getters # <<>>
    /\ Head(getters) = t
    /\ Len(pool) > 0
    /\ held' = [held EXCEPT ![t] = Append(@, queue_get(pool).item)]
    /\ pool' = queue_get(pool).rest
    /\ getters' = Tail(getters)
    /\ pc' = [pc EXCEPT ![t] = "run"]
    /\ last' = Ev("get", t, queue_get(pool).item, "none")
    /\ lastGot' = queue_get(pool).item
    /\ Entered(t, queue_get(pool).item, req[t])
    /\ UNCHANGED <<maxsize, size, _conn, cstate, pending, nconn, db, ntasks>>

\* The body of a scope runs a statement w on its connection: the write takes
\* effect at once under AUTOCOMMIT and joins the open transaction otherwise.
Execute(t, w) ==
    /\ pc[t] = "run"
    /\ held[t] # <<>>
    /\ cstate[Top(t)] = "open"
    /\ IF iso[Top(t)] = AUTOCOMMIT
       THEN /\ db' = ApplyWrite(db, w)
            /\ pending' = pending
       ELSE /\ pending' = [pending EXCEPT ![Top(t)] = Append(@, w)]
            /\ db' = db
    /\ last' = Ev("execute", t, Top(t), "none")
    /\ UNCHANGED <<maxsize, size, pool, getters, _conn, cstate, nconn, pc,
                   held, lastGot, ntasks, iso, lvl, req>>

\* The driver finds the connection of the running scope lost: conn.closed is set
\* and the server drops the open transaction.
DriverClose(t) ==
    /\ pc[t] = "run"
    /\ held[t] # <<>>
    /\ cstate[Top(t)] = "open"
    /\ cstate' = Closed({Top(t)})
    /\ pending' = Aborted({Top(t)})
    /\ last' = Ev("lost", t, Top(t), "none")
    /\ UNCHANGED <<maxsize, size, pool, getters, _conn, nconn, db, pc, held,
                   lastGot, ntasks, iso, lvl, req>>

\* connection() whose else branch does not look at conn.closed.
normal_exit_unchecked(cs, o) ==
    IF o = "ok" THEN "commit"
    ELSE IF o = "fail_open" THEN "commit_failed_open"
    ELSE "commit_failed_closed"

\* connection(), `else:` -- the body returned with the connection in state cs
\* and conn.commit(), if called, does o: on a closed connection
\* OperationalError is raised and commit is not called.
normal_exit(cs, o) ==
    IF cs = "closed" THEN "raise"
    ELSE IF o = "ok" THEN "commit"
    ELSE IF o = "fail_open" THEN "commit_failed_open"
    ELSE "commit_failed_closed"

\* connection(): the body returned. `else:` then `finally:`.
\* o is what conn.commit() does: "ok", "fail_open" (raises, connection stays
\* open), "fail_closed" (raises, connection lost).
ExitNormal(t, o) ==
    /\ pc[t] = "run"
    /\ held[t] # <<>>
    /\ LET c == Top(t) IN
       IF normal_exit(cstate[c], o) = "raise"
       THEN \* raise OperationalError; finally: conn.closed, no put
            /\ o = "ok"
            /\ last' = Ev("commit_on_closed", t, c, "OperationalError")
            /\ LeftWithoutPut(t)
            /\ UNCHANGED <<pool, _conn, cstate, pending, db>>
       ELSE IF normal_exit(cstate[c], o) = "commit"
       THEN \* conn.commit(); finally: put if the connection is not closed
            /\ db' = ApplyAll(db, pending[c])
            /\ pending' = Aborted({c})
            /\ IF cstate[c] = "closed"
               THEN LeftWithoutPut(t) /\ UNCHANGED <<pool, _conn>>
               ELSE Put(c) /\ LeftWithPut(t, c)
            /\ last' = Ev("commit", t, c, "none")
            /\ UNCHANGED cstate
       ELSE IF normal_exit(cstate[c], o) = "commit_failed_open"
       THEN /\ pending' = Aborted({c})
            /\ Put(c)
            /\ LeftWithPut(t, c)
            /\ last' = Ev("commit_failed", t, c, "commit_error")
            /\ UNCHANGED <<cstate, db>>
       ELSE /\ cstate' = Closed({c})
            /\ pending' = Aborted({c})
            /\ LeftWithoutPut(t)
            /\ last' = Ev("commit_failed", t, c, "commit_error")
            /\ UNCHANGED <<pool, _conn, db>>
    /\ held' = [held EXCEPT ![t] = Pop(t)]
    /\ UNCHANGED <<maxsize, size, getters, nconn, pc, lastGot, ntasks, req>>

\* connection(): the body raised. `except:` then `finally:`.
\* o is what conn.rollback() does in _rollback: "ok", "fail_open", "fail_closed".
ExitError(t, o) ==
    /\ pc[t] = "run"
    /\ held[t] # <<>>
    /\ LET c == Top(t) IN
       IF cstate[c] = "closed"
       THEN \* conn = None; self.closeall(); raise
            /\ o = "ok"
            /\ \E F \in SUBSET closeall_targets :
                 /\ cstate' = Closed(closeall_targets \ F)
                 /\ pending' = Aborted(closeall_targets \ F)
            /\ pool' = IF IsSingle(maxsize) THEN pool ELSE multi_closeall(pool, {})
            /\ last' = Ev("flush", t, c, "body_error")
            /\ LeftWithoutPut(t)
            /\ UNCHANGED <<_conn, db>>
       ELSE IF o = "ok"
       THEN \* conn = self._rollback(conn); raise; finally: put
            /\ pending' = Aborted({c})
            /\ Put(c)
            /\ LeftWithPut(t, c)
            /\ last' = Ev("rollback", t, c, "body_error")
            /\ UNCHANGED <<cstate, db>>
       ELSE \* _rollback returns None: finally puts nothing
            /\ cstate' = IF o = "fail_closed" THEN Closed({c}) ELSE cstate
            /\ pending' = IF o = "fail_closed" THEN Aborted({c}) ELSE pending
            /\ LeftWithoutPut(t)
            /\ last' = Ev("rollback_failed", t, c, "body_error")
            /\ UNCHANGED <<pool, _conn, db>>
    /\ held' = [held EXCEPT ![t] = Pop(t)]
    /\ UNCHANGED <<maxsize, size, getters, nconn, pc, lastGot, ntasks, req>>

\* get() used without connection(): the caller hands the connection back with put().
RawPut(t) ==
    /\ pc[t] = "run"
    /\ held[t] # <<>>
    /\ cstate[Top(t)] = "open"
    /\ TopLvl(t).isolation_level = NoLevel
    /\ Put(Top(t))
    /\ held' = [held EXCEPT ![t] = Pop(t)]
    /\ LeftWithoutPut(t)
    /\ last' = Ev("put", t, Top(t), "none")
    /\ UNCHANGED <<maxsize, size, getters, cstate, pending, nconn, db, pc,
                   lastGot, ntasks, req>>

\* self.closeall() (Database.close) from a task outside any scope; close()
\* raises for the connections of F, which stay as they are.
CloseAll(t) ==
    /\ pc[t] = "run"
    /\ \E F \in SUBSET closeall_targets :
        LET left == IF IsSingle(maxsize) THEN <<>> ELSE multi_closeall(pool, F)
            shut == (closeall_targets \ Range(left)) \ F
        IN  /\ cstate' = Closed(shut)
            /\ pending' = Aborted(shut)
            /\ pool' = IF IsSingle(maxsize) THEN pool ELSE left
            /\ last' = EvClose(t, left,
                               IF IsSingle(maxsize) THEN single_closeall(_conn)
                               ELSE "none", F)
    /\ UNCHANGED <<maxsize, size, getters, _conn, nconn, db, pc, held, lastGot,
                   ntasks, iso, lvl, req>>

Outcomes == {"ok", "fail_open", "fail_closed"}

\* ---------------------------------------------------- gevent_wait_callback
\* psycopg2.extensions: the values conn.poll() returns.
POLL_OK == 0
POLL_READ == 1
POLL_WRITE == 2
POLL_ERROR == 3

\* What conn.poll() may return: the four values above and one that is none of
\* them.
PollStates == {POLL_OK, POLL_READ, POLL_WRITE, POLL_ERROR, 4}

\* A wait callback that takes every state but POLL_OK and POLL_READ for
\* POLL_WRITE.
on_poll_else_waits(state) ==
    IF state = POLL_OK THEN "returned"
    ELSE IF state = POLL_READ THEN "wait_read"
    ELSE "wait_write"

\* gevent_wait_callback, the if chain on `state = conn.poll()`: break,
\* wait_read, wait_write, or raise OperationalError.
on_poll(state) ==
    IF state = POLL_OK THEN "returned"
    ELSE IF state = POLL_READ THEN "wait_read"
    ELSE IF state = POLL_WRITE THEN "wait_write"
    ELSE "OperationalError"

WEv(e, s) == [ev |-> e, state |-> s]

\* The polls the call has made.
Polls == {i \in 1..Len(wtrace) : wtrace[i].ev = "poll"}

\* psycopg2 calls the wait callback on a connection with work in progress.
WaitCall ==
    /\ wpc = "idle"
    /\ wtrace = <<>>
    /\ wpc' = "poll"
    /\ UNCHANGED <<wtrace, timeout>>

\* `state = conn.poll()` returns s and the if chain is taken.
Poll(s) ==
    /\ wpc = "poll"
    /\ Cardinality(Polls) < MaxPolls
    /\ wtrace' = Append(wtrace, WEv("poll", s))
    /\ wpc' = on_poll(s)
    /\ UNCHANGED timeout

\* conn.poll() raises: the error leaves the callback.
PollRaise ==
    /\ wpc = "poll"
    /\ Cardinality(Polls) < MaxPolls
    /\ wpc' = "poll_error"
    /\ UNCHANGED <<wtrace, timeout>>

\* wait_read / wait_write returns: the socket is readable / writable and the
\* loop goes round.
Ready ==
    /\ wpc \in {"wait_read", "wait_write"}
    /\ wtrace' = Append(wtrace, WEv(wpc, wtrace[Len(wtrace)].state))
    /\ wpc' = "poll"
    /\ UNCHANGED timeout

\* wait_read / wait_write with a timeout: the time is over before the socket is
\* ready and socket.timeout leaves the callback.
WaitTimeout ==
    /\ wpc \in {"wait_read", "wait_write"}
    /\ timeout # None
    /\ wpc' = "timeout"
    /\ UNCHANGED <<wtrace, timeout>>

\* ------------------------------------------------------------ migrations
\* pack_version with a multiplier of 1000.
pack_version_by_1000(major_version, minor_version) ==
    major_version * 1000 + minor_version

\* pack_version
pack_version(major_version, minor_version) ==
    major_version * VERSION_MULTIPLIER + minor_version

\* unpack_version without the modulo.
unpack_version_no_modulo(version) ==
    <<version \div VERSION_MULTIPLIER, version>>

\* unpack_version
unpack_version(version) ==
    LET minor_version == version % VERSION_MULTIPLIER
        major_version == (version - minor_version) \div VERSION_MULTIPLIER
    IN  <<major_version, minor_version>>

\* The sort key of get_mods: (major, minor), compared as Python compares tuples.
KeyLess(x, y) == x[1] < y[1] \/ (x[1] = y[1] /\ x[2] < y[2])

\* A get_mods that sorts with reverse=True.
RECURSIVE get_mods_reversed(_)
get_mods_reversed(found) ==
    IF found = {} THEN <<>>
    ELSE LET m == CHOOSE x \in found : \A y \in found \ {x} : KeyLess(y, x)
         IN  <<m>> \o get_mods_reversed(found \ {m})

\* get_mods: the modules found, without duplicates, sorted by (major, minor).
RECURSIVE get_mods(_)
get_mods(found) ==
    IF found = {} THEN <<>>
    ELSE LET m == CHOOSE x \in found : \A y \in found \ {x} : KeyLess(x, y)
         IN  <<m>> \o get_mods(found \ {m})

\* A file name is the sequence of its characters.
Digits == <<"0", "1", "2", "3", "4", "5", "6", "7", "8", "9">>
IsDigit(ch) == \E i \in 1..10 : Digits[i] = ch

\* int() of a string of decimal digits.
RECURSIVE int(_)
int(ds) ==
    IF ds = <<>> THEN 0
    ELSE int(SubSeq(ds, 1, Len(ds) - 1)) * 10
         + (CHOOSE n \in 0..9 : Digits[n + 1] = ds[Len(ds)])

\* re.I on the letters of the pattern.
lower(ch) ==
    IF ch = "P" THEN "p" ELSE IF ch = "Y" THEN "y" ELSE IF ch = "C" THEN "c"
    ELSE ch

\* PYMOD_RE.match(f): r'^((\d{2})_(\d{2})_[^.]+)\.pyc?$', re.I. After the two
\* number fields `[^.]+` takes the characters up to the first dot, which is
\* then to be followed by py or pyc and the end of the name.
PYMOD_RE(f) ==
    LET dots == {i \in 7..Len(f) : f[i] = "."}
        k == IF dots = {} THEN 0 ELSE CHOOSE i \in dots : \A j \in dots : i <= j
        ext == IF k = 0 THEN <<>>
               ELSE [i \in 1..(Len(f) - k) |-> lower(f[k + i])]
        ok == /\ Len(f) >= 8
              /\ IsDigit(f[1]) /\ IsDigit(f[2]) /\ f[3] = "_"
              /\ IsDigit(f[4]) /\ IsDigit(f[5]) /\ f[6] = "_"
              /\ k >= 8
              /\ ext \in {<<"p", "y">>, <<"p", "y", "c">>}
    IN  IF ok
        THEN [ok |-> TRUE,
              groups |-> <<SubSeq(f, 1, k - 1), SubSeq(f, 1, 2), SubSeq(f, 4, 5)>>]
        ELSE [ok |-> FALSE, groups |-> <<>>]

\* get_mods, parse_match: a module is kept here as (major, minor, name).
parse_match(groups) == <<int(groups[2]), int(groups[3]), groups[1]>>

\* get_mods: `set([parse_match(m.groups()) for m in matches])`
parsed_set(files) ==
    {parse_match(PYMOD_RE(f).groups) : f \in {g \in files : PYMOD_RE(g).ok}}

\* get_mods: `sorted(list(set(...)), key=lambda x: (x[1], x[2]))`. The order
\* of modules of one version is that of the set's iteration: any.
sorted_lists(S) ==
    {q \in [1..Cardinality(S) -> S] :
        /\ \A i, j \in 1..Cardinality(S) : i # j => q[i] # q[j]
        /\ \A i, j \in 1..Cardinality(S) : i < j => ~KeyLess(q[j], q[i])}

\* get_new keeping only what is above the minimum.
get_new_above(modules, min_major_version, min_minor_version) ==
    LET keep(m) == \/ m[1] > min_major_version
                   \/ (m[1] = min_major_version /\ m[2] > min_minor_version)
    IN  SelectSeq(modules, keep)

\* get_new: the modules at or above (min_major_version, min_minor_version).
get_new(modules, min_major_version, min_minor_version) ==
    LET keep(m) == \/ m[1] > min_major_version
                   \/ (m[1] = min_major_version /\ m[2] >= min_minor_version)
    IN  SelectSeq(modules, keep)

\* migrate asking for the current minor version itself.
migrations_from_current(mods, current_major_version, current_minor_version) ==
    get_new(mods, current_major_version, current_minor_version)

\* migrate: `get_new(mods, current_major_version, current_minor_version + 1)`
migrations(mods, current_major_version, current_minor_version) ==
    get_new(mods, current_major_version, current_minor_version + 1)

\* The task that runs migrate().
R == 1

NoRun ==
    [res |-> "none", start |-> <<0, 0>>, invoked |-> <<>>, raised |-> FALSE,
     rec |-> -1]

\* The statement each database call of the runner executes.
TableWrite == [k |-> "table", a |-> 0, b |-> 0]
VerWrite(major_version, minor_version) ==
    [k |-> "ver", a |-> pack_version(major_version, minor_version), b |-> name]
EffWrite(script, i) ==
    [k |-> "eff", a |-> pack_version(script[1], script[2]), b |-> i]

call_write(p) ==
    IF p = "rc_table" THEN TableWrite
    ELSE IF p \in {"rc_setver", "gv_init"} THEN VerWrite(0, 0)
    ELSE IF p = "setver" THEN VerWrite(cur[1], cur[2])
    ELSE EffWrite(cur, nstmt + 1)

\* An exception of psycopg2: its class and the words of str(exc).
NoFault == [cls |-> "none", msg |-> <<>>]
TableMissing ==
    [cls |-> "ProgrammingError",
     msg |-> <<"relation", "migrations", "does", "not", "exist">>]
ColumnMissing ==
    [cls |-> "ProgrammingError",
     msg |-> <<"column", "version", "does", "not", "exist">>]
SyntaxError ==
    [cls |-> "ProgrammingError", msg |-> <<"syntax", "error">>]
DatabaseMissing ==
    [cls |-> "OperationalError",
     msg |-> <<"database", "does", "not", "exist">>]
StatementTimeout ==
    [cls |-> "OperationalError", msg |-> <<"statement", "timeout">>]

\* `pat in text`
Contains(text, pat) ==
    \E i \in 1..(Len(text) - Len(pat) + 1) :
        SubSeq(text, i, i + Len(pat) - 1) = pat

\* get_version: `except psycopg2.ProgrammingError as exc:` with
\* `if 'does not exist' in str(exc)`
get_version_recreates(exc) ==
    /\ exc.cls = "ProgrammingError"
    /\ Contains(exc.msg, <<"does", "not", "exist">>)

\* What db.fetchone(GET_VERSION_SQL) raises on database d under fault f.
lookup_error(d, f) == IF ~d.table THEN TableMissing ELSE f

\* The isolation_level each call asks for: db.executescript runs its script
\* under AUTOCOMMIT.
call_level(p) == IF p = "rc_table" THEN AUTOCOMMIT ELSE NoLevel

\* A migration whose failure is swallowed: the for loop goes on.
after_error_continue(p, exc) ==
    IF p = "gv_fetch"
    THEN (IF get_version_recreates(exc) THEN "rc_close" ELSE "gv_raise")
    ELSE "loop"

\* Where the runner goes when a database call raised: get_version recreates or
\* re-raises; an error inside run_migration leaves the `with db.transaction()`
\* block by its except path.
after_error(p, exc) ==
    IF p = "gv_fetch"
    THEN (IF get_version_recreates(exc) THEN "rc_close" ELSE "gv_raise")
    ELSE "tx_abort"

\* Where the runner goes when a database call returned.
after_ok(p, rec) ==
    IF p = "gv_fetch" THEN (IF rec = -1 THEN "gv_init" ELSE "gv_done")
    ELSE IF p = "rc_table" THEN "rc_setver"
    ELSE IF p \in {"rc_setver", "gv_init"} THEN "gv_done"
    ELSE IF p = "up_stmt" THEN "up"
    ELSE "tx_close"

Calls == {"gv_fetch", "rc_table", "rc_setver", "gv_init", "up_stmt", "setver"}

\* The local variables of migrate() outside a call.
Locals ==
    /\ todo = <<>>
    /\ cur = <<0, 0>>
    /\ nstmt = 0
    /\ invoked = <<>>
    /\ raised = FALSE
    /\ start = <<0, 0>>
    /\ gv = [case |-> "none", ret |-> <<0, 0>>]

\* migrate() is left: its local variables are gone.
LocalsReset ==
    /\ todo' = <<>>
    /\ cur' = <<0, 0>>
    /\ nstmt' = 0
    /\ invoked' = <<>>
    /\ raised' = FALSE
    /\ start' = <<0, 0>>
    /\ gv' = [case |-> "none", ret |-> <<0, 0>>]

\* migrate() is called: get_version starts with db.fetchone(GET_VERSION_SQL).
MigStart ==
    /\ mpc = "idle"
    /\ prev.res = "none"
    /\ mpc' = "gv_fetch"
    /\ mph' = "acq"
    /\ dbAtCall' = db
    /\ UNCHANGED <<envvars, fault, scripts, todo, cur, nstmt, invoked, raised, start, gv, done, prev>>
    /\ UNCHANGED poolvars

\* pool.cursor(): conn = self.get(), for a database call or for db.transaction().
MAcquire ==
    /\ mpc \in Calls \cup {"tx_open"}
    /\ mph = "acq"
    /\ Get(R, call_level(mpc))
    /\ mph' = "exec"
    /\ UNCHANGED <<envvars, fault, scripts, mpc, todo, cur, nstmt, invoked, raised, start, gv, dbAtCall,
                   done, prev>>

MCreated ==
    /\ CreateDone(R)
    /\ UNCHANGED migvars

\* get_version: the SELECT raises ProgrammingError('... does not exist') when
\* the migrations table is missing, and returns a row or None otherwise.
GvFetchExec ==
    /\ mpc = "gv_fetch"
    /\ mph = "exec"
    /\ pc[R] = "run"
    /\ mph' = IF lookup_error(db, fault) = NoFault THEN "ok" ELSE "err"
    /\ UNCHANGED <<envvars, fault, scripts, mpc, todo, cur, nstmt, invoked, raised, start, gv, dbAtCall,
                   done, prev>>
    /\ UNCHANGED poolvars

\* pool.execute: cursor.execute(statement) succeeds.
StmtExec ==
    /\ mpc \in Calls \ {"gv_fetch"}
    /\ mph = "exec"
    /\ Execute(R, call_write(mpc))
    /\ mph' = "ok"
    /\ UNCHANGED <<envvars, fault, scripts, mpc, todo, cur, nstmt, invoked, raised, start, gv, dbAtCall,
                   done, prev>>

\* pool.execute: cursor.execute(statement) raises (a statement of up, or the
\* version write of set_version).
StmtFail ==
    /\ mpc \in {"up_stmt", "setver"}
    /\ mph = "exec"
    /\ pc[R] = "run"
    /\ mph' = "err"
    /\ raised' = TRUE
    /\ UNCHANGED <<envvars, fault, scripts, mpc, todo, cur, nstmt, invoked, start, gv, dbAtCall,
                   done, prev>>
    /\ UNCHANGED poolvars

\* The scope of a database call ends normally: commit and put.
CallReturn ==
    /\ mpc \in Calls
    /\ mph = "ok"
    /\ ExitNormal(R, "ok")
    /\ mpc' = after_ok(mpc, db.rec)
    /\ mph' = IF after_ok(mpc, db.rec) \in Calls THEN "acq" ELSE "none"
    /\ nstmt' = IF mpc = "up_stmt" THEN nstmt + 1 ELSE nstmt
    /\ start' = IF after_ok(mpc, db.rec) # "gv_done" THEN start
                ELSE IF mpc = "gv_fetch" THEN unpack_version(db.rec)
                ELSE <<0, 0>>
    /\ gv' = IF after_ok(mpc, db.rec) # "gv_done" THEN gv
             ELSE IF mpc = "gv_fetch"
                  THEN [case |-> "found", ret |-> unpack_version(db.rec)]
             ELSE IF mpc = "gv_init" THEN [case |-> "norecord", ret |-> <<0, 0>>]
             ELSE [case |-> "missing", ret |-> <<0, 0>>]
    /\ UNCHANGED <<envvars, fault, scripts, todo, cur, invoked, raised, dbAtCall, done, prev>>

\* The scope of a database call ends by the statement's error: rollback, put,
\* re-raise.
CallRaise ==
    /\ mpc \in Calls
    /\ mph = "err"
    /\ ExitError(R, "ok")
    /\ mpc' = after_error(mpc, lookup_error(db, fault))
    /\ mph' = "none"
    /\ UNCHANGED <<envvars, fault, scripts, todo, cur, nstmt, invoked, raised, start, gv, dbAtCall, done,
                   prev>>

\* recreate: db.recreate() begins with self.close().
RcClose ==
    /\ mpc = "rc_close"
    /\ CloseAll(R)
    /\ mpc' = "rc_drop"
    /\ UNCHANGED <<envvars, fault, scripts, mph, todo, cur, nstmt, invoked, raised, start, gv, dbAtCall,
                   done, prev>>

\* db.recreate(): DROP DATABASE, CREATE DATABASE, each through a pool of its own
\* on the server's postgres database.
RcDropCreate ==
    /\ mpc = "rc_drop"
    /\ db' = [table |-> FALSE, rec |-> -1, eff |-> {}, other |-> -1]
    /\ fault' = NoFault
    /\ mpc' = "rc_table"
    /\ mph' = "acq"
    /\ UNCHANGED <<maxsize, size, pool, getters, _conn, cstate, pending, nconn,
                   pc, held, last, lastGot, ntasks, iso, lvl, req>>
    /\ UNCHANGED <<envvars, scripts, todo, cur, nstmt, invoked, raised, start, gv, dbAtCall, done,
                   prev>>

\* migrate: get_version has returned; get_mods and get_new.
MigPlan ==
    /\ mpc = "gv_done"
    /\ todo' = migrations(get_mods(scripts), start[1], start[2])
    /\ mpc' = "loop"
    /\ UNCHANGED <<envvars, fault, scripts, mph, cur, nstmt, invoked, raised, start, gv, dbAtCall, done,
                   prev>>
    /\ UNCHANGED poolvars

\* The for loop takes the next migration: run_migration opens db.transaction().
LoopNext ==
    /\ mpc = "loop"
    /\ todo # <<>>
    /\ cur' = Head(todo)
    /\ todo' = Tail(todo)
    /\ mpc' = "tx_open"
    /\ mph' = "acq"
    /\ UNCHANGED <<envvars, fault, scripts, nstmt, invoked, raised, start, gv, dbAtCall, done, prev>>
    /\ UNCHANGED poolvars

\* The for loop is exhausted: migrate returns.
MigReturn ==
    /\ mpc = "loop"
    /\ todo = <<>>
    /\ mpc' = "idle"
    /\ done' = [res |-> "ok", start |-> start, invoked |-> invoked,
                raised |-> raised, rec |-> db.rec]
    /\ prev' = done
    /\ LocalsReset
    /\ UNCHANGED <<envvars, fault, scripts, mph, dbAtCall>>
    /\ UNCHANGED poolvars

\* run_migration: inside the transaction scope, mod.up(db, conf) is called.
UpEnter ==
    /\ mpc = "tx_open"
    /\ mph = "exec"
    /\ pc[R] = "run"
    /\ invoked' = Append(invoked, cur)
    /\ nstmt' = 0
    /\ mpc' = "up"
    /\ mph' = "none"
    /\ UNCHANGED <<envvars, fault, scripts, todo, cur, raised, start, gv, dbAtCall, done, prev>>
    /\ UNCHANGED poolvars

\* up runs its next statement with db.execute.
UpStmt ==
    /\ mpc = "up"
    /\ nstmt < NStmts
    /\ mpc' = "up_stmt"
    /\ mph' = "acq"
    /\ UNCHANGED <<envvars, fault, scripts, todo, cur, nstmt, invoked, raised, start, gv, dbAtCall, done,
                   prev>>
    /\ UNCHANGED poolvars

\* up raises an error of its own.
UpRaise ==
    /\ mpc = "up"
    /\ mpc' = after_error("up", NoFault)
    /\ raised' = TRUE
    /\ UNCHANGED <<envvars, fault, scripts, mph, todo, cur, nstmt, invoked, start, gv, dbAtCall,
                   done, prev>>
    /\ UNCHANGED poolvars

\* up returns: run_migration calls set_version.
UpReturn ==
    /\ mpc = "up"
    /\ nstmt = NStmts
    /\ mpc' = "setver"
    /\ mph' = "acq"
    /\ UNCHANGED <<envvars, fault, scripts, todo, cur, nstmt, invoked, raised, start, gv, dbAtCall, done,
                   prev>>
    /\ UNCHANGED poolvars

\* run_migration: the `with db.transaction()` block ends normally.
TxClose ==
    /\ mpc = "tx_close"
    /\ ExitNormal(R, "ok")
    /\ mpc' = "loop"
    /\ UNCHANGED <<envvars, fault, scripts, mph, todo, cur, nstmt, invoked, raised, start, gv, dbAtCall,
                   done, prev>>

\* run_migration: the `with db.transaction()` block is left by an error, which
\* migrate lets through.
TxAbort ==
    /\ mpc = "tx_abort"
    /\ ExitError(R, "ok")
    /\ mpc' = "idle"
    /\ done' = [res |-> "error", start |-> start, invoked |-> invoked,
                raised |-> raised, rec |-> db.rec]
    /\ prev' = done
    /\ LocalsReset
    /\ UNCHANGED <<envvars, fault, scripts, mph, dbAtCall>>

\* get_version re-raises the error of the lookup and migrate lets it through.
GvRaise ==
    /\ mpc = "gv_raise"
    /\ mpc' = "idle"
    /\ done' = [res |-> "error", start |-> start, invoked |-> invoked,
                raised |-> raised, rec |-> db.rec]
    /\ prev' = done
    /\ LocalsReset
    /\ UNCHANGED <<envvars, fault, scripts, mph, dbAtCall>>
    /\ UNCHANGED poolvars

\* ------------------------------------------------------------ initial states
InitPoolState ==
    /\ size = 0
    /\ pool = <<>>
    /\ getters = <<>>
    /\ _conn = None
    /\ cstate = [c \in ConnIds |-> "none"]
    /\ pending = [c \in ConnIds |-> <<>>]
    /\ nconn = 0
    /\ pc = [t \in Tasks |-> "run"]
    /\ held = [t \in Tasks |-> <<>>]
    /\ last = Ev("init", None, None, "none")
    /\ lastGot = None
    /\ iso = [c \in ConnIds |-> READ_COMMITTED]
    /\ lvl = [t \in Tasks |-> <<>>]
    /\ req = [t \in Tasks |-> NoLevel]

InitRunner ==
    /\ mpc = "idle"
    /\ mph = "none"
    /\ Locals
    /\ done = NoRun
    /\ prev = NoRun

\* The pool is made by a constructor call with one of the arguments of args.
Constructed(args) ==
    \E a \in args :
        /\ ctor = [arg |-> a, res |-> __init__(a)]
        /\ maxsize = a.val

\* Nothing has been computed from a package listing.
NotComputed == [done |-> FALSE, val |-> <<>>]

\* No call of the wait callback is under way.
InitNoWait ==
    /\ wpc = "idle"
    /\ wtrace = <<>>
    /\ timeout = None

InitNoListing ==
    /\ listing = {}
    /\ cv = <<0, 0>>
    /\ plan = NotComputed
    /\ rt = NotComputed
    /\ InitNoWait

\* ------------------------------------------------------ pool under N tasks
Init ==
    /\ Constructed(IntArgs(1..MaxM))
    /\ ntasks \in 1..NTasks
    /\ InitPoolState
    /\ db = EmptyDb
    /\ scripts = {}
    /\ dbAtCall = EmptyDb
    /\ fault = NoFault
    /\ InitRunner
    /\ InitNoListing

TaskGet(t) == held[t] = <<>> /\ Get(t, NoLevel)
TaskExecute(t) == held[t] # <<>> /\ pending[Top(t)] = <<>> /\ Execute(t, AppWrite)
TaskCloseAll(t) == held[t] = <<>> /\ CloseAll(t)

Next ==
    \/ \E t \in 1..ntasks : TaskGet(t) /\ UNCHANGED migvars
    \/ \E t \in 1..ntasks : CreateDone(t) /\ UNCHANGED migvars
    \/ \E t \in 1..ntasks : CreateFail(t) /\ UNCHANGED migvars
    \/ \E t \in 1..ntasks : Wake(t) /\ UNCHANGED migvars
    \/ \E t \in 1..ntasks : TaskExecute(t) /\ UNCHANGED migvars
    \/ \E t \in 1..ntasks : DriverClose(t) /\ UNCHANGED migvars
    \/ \E t \in 1..ntasks, o \in Outcomes : ExitNormal(t, o) /\ UNCHANGED migvars
    \/ \E t \in 1..ntasks, o \in Outcomes : ExitError(t, o) /\ UNCHANGED migvars
    \/ \E t \in 1..ntasks : RawPut(t) /\ UNCHANGED migvars
    \/ \E t \in 1..ntasks : TaskCloseAll(t) /\ UNCHANGED migvars

Spec == Init /\ [][Next]_vars

\* ------------------------------- pool under N tasks that ask for a level
TaskGetLevel(t) == held[t] = <<>> /\ \E L \in LevelArgs : Get(t, L)

NextLevels ==
    \/ \E t \in 1..ntasks : TaskGetLevel(t) /\ UNCHANGED migvars
    \/ \E t \in 1..ntasks : CreateDone(t) /\ UNCHANGED migvars
    \/ \E t \in 1..ntasks : CreateFail(t) /\ UNCHANGED migvars
    \/ \E t \in 1..ntasks : Wake(t) /\ UNCHANGED migvars
    \/ \E t \in 1..ntasks : TaskExecute(t) /\ UNCHANGED migvars
    \/ \E t \in 1..ntasks : DriverClose(t) /\ UNCHANGED migvars
    \/ \E t \in 1..ntasks, o \in Outcomes : ExitNormal(t, o) /\ UNCHANGED migvars
    \/ \E t \in 1..ntasks, o \in Outcomes : ExitError(t, o) /\ UNCHANGED migvars
    \/ \E t \in 1..ntasks : TaskCloseAll(t) /\ UNCHANGED migvars

SpecLevels == Init /\ [][NextLevels]_vars

\* ------------------------- pool made with any maxsize, then used by N tasks
CtorArgs == IntArgs(-1..MaxM) \cup OtherArgs(1..MaxM)

InitConfig ==
    /\ Constructed(CtorArgs)
    /\ ntasks \in 1..NTasks
    /\ InitPoolState
    /\ db = EmptyDb
    /\ scripts = {}
    /\ dbAtCall = EmptyDb
    /\ fault = NoFault
    /\ InitRunner
    /\ InitNoListing

\* The constructor returned a pool object.
Built == ctor.res = "ok"

NextConfig ==
    \/ \E t \in 1..ntasks : Built /\ TaskGet(t) /\ UNCHANGED migvars
    \/ \E t \in 1..ntasks : Built /\ CreateDone(t) /\ UNCHANGED migvars
    \/ \E t \in 1..ntasks : Built /\ CreateFail(t) /\ UNCHANGED migvars
    \/ \E t \in 1..ntasks : Built /\ Wake(t) /\ UNCHANGED migvars
    \/ \E t \in 1..ntasks : Built /\ TaskExecute(t) /\ UNCHANGED migvars
    \/ \E t \in 1..ntasks, o \in Outcomes :
          Built /\ ExitNormal(t, o) /\ UNCHANGED migvars
    \/ \E t \in 1..ntasks, o \in Outcomes :
          Built /\ ExitError(t, o) /\ UNCHANGED migvars
    \/ \E t \in 1..ntasks : Built /\ DriverClose(t) /\ UNCHANGED migvars
    \/ \E t \in 1..ntasks : Built /\ TaskCloseAll(t) /\ UNCHANGED migvars

SpecConfig == InitConfig /\ [][NextConfig]_vars

\* ------------------------------------------- migrate() run by a single task
Versions == (0..MaxMajor) \X (0..MaxMinor)
ScriptUniverse == Versions \ {<<0, 0>>}
AppData == {<<0, 0>>}

\* The record of OtherName: none, or a version.
OtherRecords == {-1, pack_version(0, 1)}

InitDbs ==
    {[table |-> FALSE, rec |-> -1, eff |-> AppData, other |-> -1]}
    \cup {[table |-> TRUE, rec |-> r, eff |-> AppData, other |-> o] :
            r \in {-1} \cup {pack_version(v[1], v[2]) : v \in Versions},
            o \in OtherRecords}

\* The state migrate() is first called in, with a lookup fault of F.
InitRunnerOn(F) ==
    /\ Constructed(IntArgs(1..MaxM))
    /\ ntasks = 1
    /\ InitPoolState
    /\ db \in InitDbs
    /\ scripts \in {S \in SUBSET ScriptUniverse : Cardinality(S) <= MaxScripts}
    /\ dbAtCall = db
    /\ fault \in F
    /\ InitRunner
    /\ InitNoListing

InitMigrate == InitRunnerOn({NoFault})

NextMigrate ==
    \/ MigStart
    \/ MAcquire
    \/ MCreated
    \/ GvFetchExec
    \/ StmtExec
    \/ StmtFail
    \/ CallReturn
    \/ CallRaise
    \/ RcClose
    \/ RcDropCreate
    \/ MigPlan
    \/ LoopNext
    \/ MigReturn
    \/ UpEnter
    \/ UpStmt
    \/ UpRaise
    \/ UpReturn
    \/ TxClose
    \/ TxAbort

SpecMigrate == InitMigrate /\ [][NextMigrate]_vars

\* ------------------------------- migrate() on a server whose lookup may fail
Faults == {NoFault, ColumnMissing, SyntaxError, DatabaseMissing, StatementTimeout}

InitLookup == InitRunnerOn(Faults)

NextLookup ==
    \/ NextMigrate
    \/ GvRaise

SpecLookup == InitLookup /\ [][NextLookup]_vars

\* ----------------------------- get_mods, get_new and the version packing
PY == <<".", "p", "y">>
PYC == <<".", "p", "y", "c">>
Stem_00_01_a == <<"0", "0", "_", "0", "1", "_", "a">>
Stem_00_01_b == <<"0", "0", "_", "0", "1", "_", "b">>
Stem_01_00_a == <<"0", "1", "_", "0", "0", "_", "a">>
Stem_01_02_a == <<"0", "1", "_", "0", "2", "_", "a">>
Stem_10_00_a == <<"1", "0", "_", "0", "0", "_", "a">>

\* The file names a migrations package may hold.
FileUniverse ==
    {Stem_00_01_a \o PY, Stem_00_01_a \o PYC, Stem_00_01_b \o PY,
     Stem_01_00_a \o <<".", "P", "Y">>, Stem_01_02_a \o PY,
     Stem_10_00_a \o PYC,
     <<"1", "_", "0", "0", "_", "a">> \o PY,
     <<"0", "1", "_", "0", "3", "_", "a", ".", "t", "x", "t">>,
     <<"0", "1", "_", "0", "3", "_", "a", ".", "b">> \o PY,
     <<"0", "1", "_", "0", "1", "_">> \o PY,
     <<"_", "_", "i", "n", "i", "t", "_", "_">> \o PY}

\* The versions given to get_new and pack_version.
InputVersions ==
    (0..MaxMajor) \X ((0..MaxMinor) \cup {VERSION_MULTIPLIER - 1})

InitPackage ==
    /\ Constructed(IntArgs({1}))
    /\ ntasks = 1
    /\ InitPoolState
    /\ db = EmptyDb
    /\ scripts = {}
    /\ dbAtCall = EmptyDb
    /\ fault = NoFault
    /\ InitRunner
    /\ listing \in {L \in SUBSET FileUniverse : Cardinality(L) <= MaxListing}
    /\ cv \in InputVersions
    /\ plan = NotComputed
    /\ rt = NotComputed
    /\ InitNoWait

\* migrate: `mods = get_mods(package)` and
\* `get_new(mods, current_major_version, current_minor_version + 1)`, with the
\* current version cv.
Plan ==
    /\ ~plan.done
    /\ \E mods \in sorted_lists(parsed_set(listing)) :
          plan' = [done |-> TRUE, val |-> migrations(mods, cv[1], cv[2])]
    /\ UNCHANGED <<poolvars, waitvars, ctor, listing, cv, rt, fault, scripts, mpc, mph,
                   todo, cur, nstmt, invoked, raised, start, gv, dbAtCall,
                   done, prev>>

\* unpack_version(pack_version(major, minor)) for cv = (major, minor).
RoundTrip ==
    /\ ~rt.done
    /\ rt' = [done |-> TRUE, val |-> unpack_version(pack_version(cv[1], cv[2]))]
    /\ UNCHANGED <<poolvars, waitvars, ctor, listing, cv, plan, fault, scripts, mpc, mph,
                   todo, cur, nstmt, invoked, raised, start, gv, dbAtCall,
                   done, prev>>

NextPackage ==
    \/ Plan
    \/ RoundTrip

SpecPackage == InitPackage /\ [][NextPackage]_vars

\* ------------------------------------ a call of gevent_wait_callback
\* The timeout is None when psycopg2 makes the call and a number when the
\* function is called with one.
InitWait ==
    /\ Constructed(IntArgs({1}))
    /\ ntasks = 1
    /\ InitPoolState
    /\ db = EmptyDb
    /\ scripts = {}
    /\ dbAtCall = EmptyDb
    /\ fault = NoFault
    /\ InitRunner
    /\ listing = {}
    /\ cv = <<0, 0>>
    /\ plan = NotComputed
    /\ rt = NotComputed
    /\ wpc = "idle"
    /\ wtrace = <<>>
    /\ timeout \in {None, 1}

WaitRest ==
    UNCHANGED <<poolvars, ctor, listing, cv, plan, rt, fault, scripts, mpc, mph,
                todo, cur, nstmt, invoked, raised, start, gv, dbAtCall, done,
                prev>>

NextWait ==
    \/ WaitCall /\ WaitRest
    \/ \E s \in PollStates : Poll(s) /\ WaitRest
    \/ PollRaise /\ WaitRest
    \/ Ready /\ WaitRest
    \/ WaitTimeout /\ WaitRest

SpecWait == InitWait /\ [][NextWait]_vars

\* ------------------------------------------------------------------ claims
OpenConns == {c \in ConnIds : cstate[c] = "open"}
Holds(t, c) == c \in Range(held[t])
Exclusive ==
    \A t1, t2 \in Tasks : \A c \in ConnIds :
        (Holds(t1, c) /\ Holds(t2, c)) => t1 = t2
Reservoir == IF IsSingle(maxsize) THEN {_conn} \ {None} ELSE Range(pool)
ExitOps == {"commit", "commit_on_closed", "commit_failed", "rollback",
            "rollback_failed", "flush"}
\* What the next get() does from this state: it returns an open connection
\* at once and opens none.
NextGetReuses ==
    /\ GetPath \in {"stored", "idle"}
    /\ cstate[IF IsSingle(maxsize) THEN _conn ELSE Head(pool)] = "open"

\* C1: at no point are more than maxsize connections created by the pool open
\* at once, in single-slot and in bounded mode, and in bounded mode the live
\* counter size never exceeds maxsize.
C1_AtMostMaxOpen ==
    /\ Cardinality(OpenConns) <= maxsize
    /\ (~IsSingle(maxsize) => size <= maxsize)

\* C2 as stated: no two tasks ever hold the same physical connection at the same
\* time, for every maxsize >= 1, single-slot mode included.
C2_ExclusiveAllModes == Exclusive

\* C2 as amended: in bounded mode (maxsize > 1) no two tasks ever hold the same
\* physical connection at the same time.
C2_ExclusiveBounded == ~IsSingle(maxsize) => Exclusive

\* Two tasks hold connections of a bounded pool, one of them taken from the idle
\* queue after an earlier release.
C2_Witness ==
    /\ ~IsSingle(maxsize)
    /\ last.op = "get"
    /\ \E t1, t2 \in Tasks : t1 # t2 /\ held[t1] # <<>> /\ held[t2] # <<>>

\* C6 as stated: whenever the body of a scope raises while its connection is
\* open, the connection is rolled back, the error is re-raised and the
\* connection is back in the reservoir, so that the next acquire returns an open
\* connection without creating one.
C6_ErrorAlwaysReturns ==
    last.op \in {"rollback", "rollback_failed"} =>
        /\ last.exc = "body_error"
        /\ cstate[last.conn] = "open"
        /\ pending[last.conn] = <<>>
        /\ last.conn \in Reservoir
        /\ NextGetReuses

\* C6 as amended: when the body of a scope raises while its connection is open
\* and the rollback succeeds, the error is re-raised, the connection has no open
\* transaction left and is back in the reservoir, and the next acquire returns
\* an open connection without creating one; when the rollback itself raises,
\* the error is still re-raised and nothing is put back.
C6_RollbackReturns ==
    /\ last.op = "rollback" =>
          /\ last.exc = "body_error"
          /\ cstate[last.conn] = "open"
          /\ pending[last.conn] = <<>>
          /\ last.conn \in Reservoir
          /\ NextGetReuses
    /\ last.op = "rollback_failed" =>
          /\ last.exc = "body_error"
          /\ (~IsSingle(maxsize) => last.conn \notin Range(pool))

\* A scope of a bounded pool ran a statement, raised, and was rolled back.
C6_Witness ==
    /\ last.op = "rollback"
    /\ ~IsSingle(maxsize)
    /\ last.conn \in Range(pool)

\* C7: when the body of a scope raises and the connection is closed, the
\* connection is not put back, no idle connection stays in the reservoir, and
\* the next acquire creates a fresh connection: it neither blocks nor returns a
\* closed connection, whatever maxsize and however many connections exist.
C7_FlushThenCreate ==
    last.op = "flush" =>
        /\ \A c \in Reservoir : cstate[c] = "closed"
        /\ (~IsSingle(maxsize) => pool = <<>>)
        /\ GetPath = "create"

\* C8: every exit of a scope in bounded mode either puts the connection back or
\* gives its place in the pool back, so that no place stays taken for ever.
C8_ExitFreesPlace ==
    [][(last'.op \in ExitOps /\ ~IsSingle(maxsize) /\ held' # held) =>
          (last'.conn \in Range(pool') \/ size' < size)]_vars

\* C8, its consequence: once every task has left its scopes, a later acquire is
\* satisfiable.
C8_QuiescentAcquire ==
    (\A t \in Tasks : pc[t] = "run" /\ held[t] = <<>>) => GetPath # "block"

\* C9: with maxsize 1 and one task, an acquire returns the connection the
\* previous acquire returned as long as that one is open, and opens nothing;
\* once it is closed, the acquire opens exactly one connection and returns it.
C9_SingleSlot ==
    [][(IsSingle(maxsize) /\ ntasks = 1 /\ Len(held'[1]) > Len(held[1])
          /\ lastGot # None) =>
          LET got == held'[1][Len(held'[1])] IN
          /\ cstate[lastGot] = "open" => (got = lastGot /\ nconn' = nconn)
          /\ cstate[lastGot] = "closed" =>
                (nconn' = nconn + 1 /\ got = nconn' /\ cstate'[got] = "open")]_vars

\* A single-slot pool used by one task reuses its second connection, opened
\* after the first one was closed.
C9_Witness ==
    /\ IsSingle(maxsize)
    /\ ntasks = 1
    /\ last.op = "get"
    /\ last.conn = 2
    /\ cstate[1] = "closed"

\* ------------------------------------------------------- claims on migrate()
\* The packed form of a version, major * 10000 + minor.
Packed(v) == v[1] * 10000 + v[2]

\* Version x precedes version y.
Before(x, y) == x[1] < y[1] \/ (x[1] = y[1] /\ x[2] < y[2])

\* The scripts of S strictly newer than version v.
Newer(S, v) == {s \in S : Before(v, s)}

Highest(S) == CHOOSE x \in S : \A y \in S : y = x \/ Before(y, x)

Ascending(q) == \A i, j \in 1..Len(q) : i < j => Before(q[i], q[j])

\* C3 as stated: a migrate() that returns leaves the stored version at the
\* highest discovered script version.
C3_EndsAtHighest ==
    (done.res = "ok" /\ scripts # {}) => done.rec = Packed(Highest(scripts))

\* C3, amended: a migrate() that returns has invoked exactly the scripts
\* strictly newer than the version get_version returned, each once, in
\* ascending order; the stored version is then the highest discovered one if
\* some script was newer and is the version get_version returned otherwise; a
\* second migrate() right after a returned one returns too, invokes nothing and
\* leaves the stored version as it was.
C3_MigrateMonotone ==
    /\ done.res = "ok" =>
          LET nw == Newer(scripts, done.start) IN
          /\ Range(done.invoked) = nw
          /\ Len(done.invoked) = Cardinality(nw)
          /\ Ascending(done.invoked)
          /\ done.rec = IF nw = {} THEN Packed(done.start)
                        ELSE Packed(Highest(scripts))
    /\ prev.res = "ok" =>
          /\ done.res = "ok"
          /\ done.invoked = <<>>
          /\ done.rec = prev.rec

\* A first migrate() applied two scripts and left an older one alone; the
\* second migrate() has returned.
C3_Witness ==
    /\ prev.res = "ok"
    /\ Len(prev.invoked) = 2
    /\ Cardinality(scripts) = 3
    /\ done.res = "ok"

\* C4: when up or the version write of a pending script raises, migrate() ends
\* with that error; the scripts it invoked are the pending ones up to the
\* failing one, in ascending order, so no later script was invoked; and the
\* stored version is that of the last script before the failing one, or the
\* version get_version returned if the first pending script failed.
C4_StopAtFirstFailure ==
    (done.res # "none" /\ done.raised) =>
        LET nw == Newer(scripts, done.start)
            n == Len(done.invoked)
        IN  /\ done.res = "error"
            /\ n >= 1
            /\ Ascending(done.invoked)
            /\ Range(done.invoked) = {s \in nw : ~Before(done.invoked[n], s)}
            /\ done.rec = IF n = 1 THEN Packed(done.start)
                          ELSE Packed(done.invoked[n - 1])

\* The second of three pending scripts failed: the third was never invoked.
C4_Witness ==
    /\ done.res = "error"
    /\ done.raised
    /\ Len(done.invoked) = 2
    /\ Cardinality(Newer(scripts, done.start)) = 3

\* C5 as stated: a script that failed (in up, or in its version write) leaves
\* nothing behind: none of its statements' effects is in the database and the
\* stored version is not its version.
C5_FailedMigrationLeavesNoTrace ==
    (mpc = "idle" /\ done.res = "error") =>
        LET f == done.invoked[Len(done.invoked)] IN
        /\ \A i \in 1..NStmts : <<Packed(f), i>> \notin db.eff
        /\ db.rec # Packed(f)

\* C10: get_version returns by one of three cases, decided by the database it
\* was called on. Table missing: the database is recreated, an empty one with
\* the migrations table and a (0, 0) record, and (0, 0) is returned. Table
\* without a record: a (0, 0) record is written, nothing else changes, (0, 0)
\* is returned. Record v: (v div 10000, v mod 10000) is returned and nothing
\* changes. In every case a record exists afterwards.
C10_GetVersionCases ==
    mpc = "gv_done" =>
        /\ start = gv.ret
        /\ db.table /\ db.rec # -1
        /\ gv.case = (IF ~dbAtCall.table THEN "missing"
                      ELSE IF dbAtCall.rec = -1 THEN "norecord" ELSE "found")
        /\ gv.case = "missing" =>
              /\ db = [table |-> TRUE, rec |-> 0, eff |-> {}, other |-> -1]
              /\ gv.ret = <<0, 0>>
        /\ gv.case = "norecord" =>
              /\ db = [dbAtCall EXCEPT !.rec = 0]
              /\ gv.ret = <<0, 0>>
        /\ gv.case = "found" =>
              /\ db = dbAtCall
              /\ gv.ret = <<dbAtCall.rec \div 10000, dbAtCall.rec % 10000>>

\* get_version has returned the stored version (1, 1).
C10_Witness ==
    /\ mpc = "gv_done"
    /\ gv.case = "found"
    /\ gv.ret = <<1, 1>>
    /\ dbAtCall.rec = 10001

\* C11 as stated: get_version recreates the database only when the migrations
\* table is missing; under any other error of the lookup nothing is recreated
\* and nothing is written.
C11_RecreateOnlyForMissingTable ==
    /\ mpc \in {"rc_close", "rc_drop", "rc_table", "rc_setver"} =>
          ~dbAtCall.table
    /\ (dbAtCall.table /\ fault # NoFault) => db = dbAtCall

\* The conforming file names of the package and the module each stands for.
ConformingFiles ==
    {<<Stem_00_01_a \o PY, <<0, 1, Stem_00_01_a>>>>,
     <<Stem_00_01_a \o PYC, <<0, 1, Stem_00_01_a>>>>,
     <<Stem_00_01_b \o PY, <<0, 1, Stem_00_01_b>>>>,
     <<Stem_01_00_a \o <<".", "P", "Y">>, <<1, 0, Stem_01_00_a>>>>,
     <<Stem_01_02_a \o PY, <<1, 2, Stem_01_02_a>>>>,
     <<Stem_10_00_a \o PYC, <<10, 0, Stem_10_00_a>>>>}

\* C12: the list migrate iterates holds exactly the modules of the conforming
\* file names whose major is above the current one, or equal to it with a minor
\* of at least the current one plus one; each module once, whatever the number
\* of files that stand for it; in ascending order of (major, minor).
C12_PendingList ==
    plan.done =>
        LET expected ==
                {p[2] : p \in {x \in ConformingFiles :
                    /\ x[1] \in listing
                    /\ \/ x[2][1] > cv[1]
                       \/ (x[2][1] = cv[1] /\ x[2][2] >= cv[2] + 1)}}
            q == plan.val
        IN  /\ Range(q) = expected
            /\ Len(q) = Cardinality(expected)
            /\ \A i, j \in 1..Len(q) : i < j =>
                  (q[i][1] < q[j][1] \/ (q[i][1] = q[j][1] /\ q[i][2] <= q[j][2]))

\* Current version (0, 0); the package holds 00_01_a.py, 00_01_a.pyc and a name
\* that does not conform: the list is the one module 00_01_a.
C12_Witness ==
    /\ plan.done
    /\ cv = <<0, 0>>
    /\ {Stem_00_01_a \o PY, Stem_00_01_a \o PYC} \subseteq listing
    /\ Cardinality(listing) = 3
    /\ plan.val = <<<<0, 1, Stem_00_01_a>>>>

\* C13: unpack_version(pack_version(major, minor)) is (major, minor) for
\* major >= 0 and 0 <= minor < 10000.
C13_RoundTrip ==
    (rt.done /\ cv[1] >= 0 /\ cv[2] >= 0 /\ cv[2] < 10000) => rt.val = cv

\* The round trip of a version with the largest minor, 9999.
C13_Witness ==
    /\ rt.done
    /\ cv[1] >= 1
    /\ cv[2] = 9999

\* C14 as stated: a scope that ends with its connection put back leaves the
\* connection at the isolation level it had before the scope was entered.
C14_LevelRestored ==
    [][\A t \in Tasks :
          (Len(held'[t]) < Len(held[t]) /\ last'.op \in {"commit", "rollback"}
             /\ last'.task = t) =>
              iso'[last'.conn] = TopLvl(t).prior]_vars

\* C15 as stated: while tasks are blocked in acquire, a connection that leaves
\* the idle queue goes to the task that has waited longest, never to a task
\* that arrived later.
C15_FifoService ==
    [][(getters # <<>> /\ last'.op = "get" /\ Len(pool') < Len(pool)) =>
          last'.task = Head(getters)]_vars

\* C16 as stated: a constructor call with a maxsize that is not an integer, or
\* is zero or negative, raises; it yields no pool object.
C16_InvalidSizeRaises ==
    (~ctor.arg.int \/ ctor.arg.val <= 0) => ~Built

\* C17: when the body of a scope returns normally and its connection is closed,
\* no commit is made, OperationalError is raised to the caller, and the closed
\* connection is not put back.
C17_NoCommitOnClosed ==
    [][\A t \in Tasks :
          (Len(held'[t]) < Len(held[t]) /\ cstate[Top(t)] = "closed"
             /\ last'.task = t /\ last'.op # "flush") =>
              /\ last'.op = "commit_on_closed"
              /\ last'.exc = "OperationalError"
              /\ db' = db
              /\ pool' = pool
              /\ _conn' = _conn]_vars

\* A scope of a bounded pool whose connection was lost has ended normally.
C17_Witness ==
    /\ ~IsSingle(maxsize)
    /\ last.op = "commit_on_closed"
    /\ last.exc = "OperationalError"
    /\ cstate[last.conn] = "closed"
    /\ last.conn \notin Range(pool)

\* C18: closeall never raises; in bounded mode it calls close() on every idle
\* connection and leaves the idle queue empty, also when close() raises for
\* some of them, and every connection whose close() did not raise is closed;
\* in single-slot mode it calls close() on the stored connection, if any.
C18_CloseAllBestEffort ==
    [][(last'.op = "closeall" /\ last' # last) =>
          /\ last'.exc = "none"
          /\ last'.tried = (IF IsSingle(maxsize)
                            THEN (IF _conn = None THEN {} ELSE {_conn})
                            ELSE Range(pool))
          /\ \A c \in last'.tried \ last'.failed : cstate'[c] = "closed"
          /\ ~IsSingle(maxsize) => pool' = <<>>]_vars

\* closeall of a bounded pool with two idle connections, one of which raised
\* in close().
C18_Witness ==
    /\ ~IsSingle(maxsize)
    /\ last.op = "closeall"
    /\ Cardinality(last.tried) = 2
    /\ Cardinality(last.failed) = 1
    /\ pool = <<>>

\* C19 as stated, in its consequence: a task blocked in acquire is resumed
\* once the holders have left their scopes, so no task is left waiting while
\* the queue is empty and no task holds a connection or is creating one.
C19_BlockedAcquireCompletes ==
    (\E t \in Tasks : pc[t] = "waiting") =>
        \/ pool # <<>>
        \/ \E u \in Tasks : held[u] # <<>> \/ pc[u] = "creating"

\* C20: in bounded mode an acquire that creates counts the connection before
\* create_connection, and when create_connection raises the count is taken
\* back, the idle queue is as it was and the error goes to the caller: the
\* failed acquire leaves the counter and the queue as it found them.
C20_CreateFailureRollsBack ==
    [][\A t \in Tasks : ~IsSingle(maxsize) =>
          /\ (pc[t] = "run" /\ pc'[t] = "creating") =>
                (size' = size + 1 /\ pool' = pool)
          /\ (pc[t] = "creating" /\ pc'[t] = "run"
                 /\ Len(held'[t]) = Len(held[t])) =>
                (size' = size - 1 /\ pool' = pool
                   /\ last'.op = "create_failed" /\ last'.task = t
                   /\ last'.exc = "create_error")]_vars

\* A bounded pool with one connection, after the creation of a second one
\* failed: the counter is 1 again.
C20_Witness ==
    /\ ~IsSingle(maxsize)
    /\ last.op = "create_failed"
    /\ nconn = 1
    /\ size = 1
    /\ \A t \in Tasks : pc[t] = "run"

\* C21: gevent_wait_callback polls again and again. After a poll of POLL_READ
\* it waits for the socket to be readable and after a poll of POLL_WRITE for it
\* to be writable, and the wait that ended is followed by the next poll; it
\* returns only when the latest poll gave POLL_OK; a poll of any other state
\* raises OperationalError at once, with no wait after it.
C21_WaitProtocol ==
    LET n == Len(wtrace)
        waitOf(s) == IF s = POLL_READ THEN "wait_read" ELSE "wait_write"
    IN  /\ \A i \in 1..n :
              IF wtrace[i].ev = "poll"
              THEN i < n => /\ wtrace[i].state \in {POLL_READ, POLL_WRITE}
                            /\ wtrace[i + 1].ev = waitOf(wtrace[i].state)
              ELSE /\ i > 1
                   /\ wtrace[i - 1] = WEv("poll", wtrace[i].state)
                   /\ wtrace[i].ev = waitOf(wtrace[i].state)
                   /\ i < n => wtrace[i + 1].ev = "poll"
        /\ wpc = "returned" <=> (n > 0 /\ wtrace[n] = WEv("poll", POLL_OK))
        /\ wpc = "wait_read" => (n > 0 /\ wtrace[n] = WEv("poll", POLL_READ))
        /\ wpc = "wait_write" => (n > 0 /\ wtrace[n] = WEv("poll", POLL_WRITE))
        /\ (n > 0 /\ wtrace[n] = WEv("poll", POLL_READ)) =>
              (wpc = "wait_read" \/ (wpc = "timeout" /\ timeout # None))
        /\ (n > 0 /\ wtrace[n] = WEv("poll", POLL_WRITE)) =>
              (wpc = "wait_write" \/ (wpc = "timeout" /\ timeout # None))
        /\ wpc = "OperationalError" <=>
              (n > 0 /\ wtrace[n].ev = "poll"
                 /\ wtrace[n].state \notin {POLL_OK, POLL_READ, POLL_WRITE})
        /\ wpc \in {"poll", "poll_error"} => (n = 0 \/ wtrace[n].ev # "poll")

\* The callback returned after a wait for reading, a wait for writing and a
\* third poll of POLL_OK.
C21_Witness ==
    /\ wpc = "returned"
    /\ wtrace = <<WEv("poll", POLL_READ), WEv("wait_read", POLL_READ),
                  WEv("poll", POLL_WRITE), WEv("wait_write", POLL_WRITE),
                  WEv("poll", POLL_OK)>>

\* The tasks inside create_connection.
Creating == {t \in Tasks : pc[t] = "creating"}

C23_SingleRunnerTerminates ==
    ~(/\ pc[R] = "waiting"
      /\ pool = <<>>
      /\ \A u \in Tasks \ {R} : held[u] = <<>> /\ pc[u] = "run")

\* C24: once the record of the group exists its stored version never goes
\* down, through any sequence of migrate() calls, returned or failed. In a
\* migrate() called on a database that has the record, the stored version
\* changes only by a set_version of run_migration, and each of these writes
\* the version of the running script, which is above the version get_version
\* returned to this call and not below the version stored before. The record
\* of another group is never changed.
C24_VersionNeverDecreases ==
    [][/\ db'.other = db.other
       /\ db.rec # -1 => db'.rec >= db.rec
       /\ (dbAtCall.rec # -1 /\ db'.rec # db.rec) =>
             /\ mpc = "setver"
             /\ db'.rec = Packed(cur)
             /\ db'.rec > Packed(start)
       /\ (dbAtCall.rec # -1 /\ mpc = "setver" /\ mpc' = "tx_close") =>
             /\ db'.rec = Packed(cur)
             /\ db'.rec > Packed(start)
             /\ db'.rec >= db.rec]_vars

\* A migrate() found version (0, 1), applied 01_00 and 01_01 and returned, and
\* a second migrate() has returned: the version is (1, 1) and the record of the
\* other group is as it was.
C24_Witness ==
    /\ prev.res = "ok"
    /\ prev.start = <<0, 1>>
    /\ Len(prev.invoked) = 2
    /\ done.res = "ok"
    /\ db.rec = 10001
    /\ db.other = 1
====
